---- MODULE Spec2Model ----
(***************************************************************************)
(* Model of src-tauri/src/main.rs of notch: the native menu built by       *)
(* create_menu, installed by the setup closure, and the on_menu_event      *)
(* closure that turns a menu event into a script evaluated in the webview  *)
(* window labelled "main".                                                 *)
(***************************************************************************)
EXTENDS Integers, Sequences, FiniteSets

VARIABLES
    status,       \* "init" | "running" | "aborted" (setup returned Err) | "panicked"
    decl,         \* the arguments of the MenuItem::with_id calls compiled into create_menu
    menu,         \* the menu installed by app.set_menu, or NoMenu
    main_window,  \* TRUE iff app.get_webview_window("main") is Some
    focused,      \* TRUE iff the "main" window is the focused (active) window
    log           \* one record per menu event handled by on_menu_event

vars == <<status, decl, menu, main_window, focused, log>>

\* Number of menu events handled in one run of the model.
MaxActivations == 2

NoMenu == <<>>
NoId == "<no id>"
NoAccel == "None"
NoText == "None"

-----------------------------------------------------------------------------
(* The tauri menu constructors, as records of their arguments.             *)

MenuItem_with_id(a) ==
    [kind |-> "Leaf", id |-> a.id, text |-> a.text, enabled |-> a.enabled,
     accel |-> a.accel, items |-> <<>>]

PredefinedMenuItem(action, text) ==
    [kind |-> "Predefined", id |-> NoId, text |-> text, enabled |-> TRUE,
     accel |-> NoAccel, items |-> <<action>>]

separator == PredefinedMenuItem("separator", NoText)

Submenu_with_items(text, enabled, items) ==
    [kind |-> "Submenu", id |-> NoId, text |-> text, enabled |-> enabled,
     accel |-> NoAccel, items |-> items]

Menu_with_items(submenus) == submenus

Arg(id, text, enabled, accel) ==
    [id |-> id, text |-> text, enabled |-> enabled, accel |-> accel]

\* C5 mutant: "Export Library..." declared with the id of "Export Note...".
LeafDeclDup ==
    << Arg("new_note", "New Note", TRUE, "CmdOrCtrl+N"),
       Arg("new_notebook", "New Notebook", TRUE, "CmdOrCtrl+Shift+N"),
       Arg("import", "Import Quiver Library...", TRUE, "CmdOrCtrl+Shift+I"),
       Arg("export", "Export Note...", TRUE, "CmdOrCtrl+Shift+E"),
       Arg("export", "Export Library...", TRUE, NoAccel),
       Arg("toggle_sidebar", "Toggle Sidebar", TRUE, "CmdOrCtrl+0"),
       Arg("single_pane", "Single Pane", TRUE, "CmdOrCtrl+1"),
       Arg("double_pane", "Two Panes", TRUE, "CmdOrCtrl+2"),
       Arg("triple_pane", "Three Panes", TRUE, "CmdOrCtrl+3"),
       Arg("editor_only", "Editor Only", TRUE, "CmdOrCtrl+4"),
       Arg("preview_only", "Preview Only", TRUE, "CmdOrCtrl+5"),
       Arg("split_view", "Side by Side", TRUE, "CmdOrCtrl+6"),
       Arg("documentation", "Documentation", TRUE, NoAccel) >>

\* The thirteen MenuItem::with_id calls of create_menu, in source order.
LeafDecl ==
    << Arg("new_note", "New Note", TRUE, "CmdOrCtrl+N"),
       Arg("new_notebook", "New Notebook", TRUE, "CmdOrCtrl+Shift+N"),
       Arg("import", "Import Quiver Library...", TRUE, "CmdOrCtrl+Shift+I"),
       Arg("export", "Export Note...", TRUE, "CmdOrCtrl+Shift+E"),
       Arg("export_library", "Export Library...", TRUE, NoAccel),
       Arg("toggle_sidebar", "Toggle Sidebar", TRUE, "CmdOrCtrl+0"),
       Arg("single_pane", "Single Pane", TRUE, "CmdOrCtrl+1"),
       Arg("double_pane", "Two Panes", TRUE, "CmdOrCtrl+2"),
       Arg("triple_pane", "Three Panes", TRUE, "CmdOrCtrl+3"),
       Arg("editor_only", "Editor Only", TRUE, "CmdOrCtrl+4"),
       Arg("preview_only", "Preview Only", TRUE, "CmdOrCtrl+5"),
       Arg("split_view", "Side by Side", TRUE, "CmdOrCtrl+6"),
       Arg("documentation", "Documentation", TRUE, NoAccel) >>

app_menu ==
    Submenu_with_items("Notch", TRUE,
        << PredefinedMenuItem("about", "About Notch"),
           separator,
           PredefinedMenuItem("services", NoText),
           separator,
           PredefinedMenuItem("hide", NoText),
           PredefinedMenuItem("hide_others", NoText),
           PredefinedMenuItem("show_all", NoText),
           separator,
           PredefinedMenuItem("quit", NoText) >>)

file_menu(d) ==
    Submenu_with_items("File", TRUE,
        << MenuItem_with_id(d[1]),
           MenuItem_with_id(d[2]),
           separator,
           MenuItem_with_id(d[3]),
           MenuItem_with_id(d[4]),
           MenuItem_with_id(d[5]),
           separator,
           PredefinedMenuItem("close_window", NoText) >>)

edit_menu ==
    Submenu_with_items("Edit", TRUE,
        << PredefinedMenuItem("undo", NoText),
           PredefinedMenuItem("redo", NoText),
           separator,
           PredefinedMenuItem("cut", NoText),
           PredefinedMenuItem("copy", NoText),
           PredefinedMenuItem("paste", NoText),
           PredefinedMenuItem("select_all", NoText) >>)

view_menu(d) ==
    Submenu_with_items("View", TRUE,
        << MenuItem_with_id(d[6]),
           separator,
           MenuItem_with_id(d[7]),
           MenuItem_with_id(d[8]),
           MenuItem_with_id(d[9]),
           separator,
           MenuItem_with_id(d[10]),
           MenuItem_with_id(d[11]),
           MenuItem_with_id(d[12]),
           separator,
           PredefinedMenuItem("fullscreen", NoText) >>)

window_menu ==
    Submenu_with_items("Window", TRUE,
        << PredefinedMenuItem("minimize", NoText),
           PredefinedMenuItem("maximize", NoText),
           separator,
           PredefinedMenuItem("close_window", NoText) >>)

help_menu(d) ==
    Submenu_with_items("Help", TRUE, << MenuItem_with_id(d[13]) >>)

Ok(v) == [ok |-> TRUE, value |-> v]
Err == [ok |-> FALSE, value |-> NoMenu]

\* C7 mutant: the View and Window groups handed to Menu::with_items in the
\* wrong order.
create_menu_swapped(d, ctorOk) ==
    IF ~ctorOk THEN Err
    ELSE Ok(Menu_with_items(<< app_menu, file_menu(d), edit_menu,
                               window_menu, view_menu(d), help_menu(d) >>))

\* create_menu: every constructor is followed by `?`, so the first tauri
\* error is returned; ctorOk says that every constructor returned Ok.  The
\* function compares neither ids nor accelerators.
create_menu(d, ctorOk) ==
    IF ~ctorOk THEN Err
    ELSE Ok(Menu_with_items(<< app_menu, file_menu(d), edit_menu,
                               view_menu(d), window_menu, help_menu(d) >>))

-----------------------------------------------------------------------------
(* The tree, read back.                                                    *)

RECURSIVE Flatten(_)
Flatten(seqs) ==
    IF seqs = <<>> THEN <<>> ELSE Head(seqs) \o Flatten(Tail(seqs))

IsLeaf(n) == n.kind = "Leaf"

\* The entries of all groups, in on-screen order.
Entries(tree) == Flatten([g \in DOMAIN tree |-> tree[g].items])

\* The Leaf nodes of the tree, in on-screen order.
Leaves(tree) == SelectSeq(Entries(tree), IsLeaf)

LeafIds(tree) == {Leaves(tree)[i].id : i \in DOMAIN Leaves(tree)}

-----------------------------------------------------------------------------
(* on_menu_event                                                           *)

Script(fn, args) == [object |-> "window.__NOTCH__", fn |-> fn, args |-> args]

Arm(pat, script) == [pat |-> pat, script |-> script]

\* C1 mutant: the "import" arm evaluates the script of the "export" arm.
match_arms_copied ==
    << Arm("new_note", Script("newNote", <<>>)),
       Arm("new_notebook", Script("newNotebook", <<>>)),
       Arm("import", Script("exportNote", <<>>)),
       Arm("export", Script("exportNote", <<>>)),
       Arm("export_library", Script("exportLibrary", <<>>)),
       Arm("toggle_sidebar", Script("toggleSidebar", <<>>)),
       Arm("single_pane", Script("setLayoutMode", <<"single">>)),
       Arm("double_pane", Script("setLayoutMode", <<"double">>)),
       Arm("triple_pane", Script("setLayoutMode", <<"triple">>)),
       Arm("editor_only", Script("setEditorViewMode", <<"editor">>)),
       Arm("preview_only", Script("setEditorViewMode", <<"preview">>)),
       Arm("split_view", Script("setEditorViewMode", <<"split">>)) >>

\* C10 mutant: the "export" arm spelled with an id no menu item carries.
match_arms_dead ==
    << Arm("new_note", Script("newNote", <<>>)),
       Arm("new_notebook", Script("newNotebook", <<>>)),
       Arm("import", Script("importLibrary", <<>>)),
       Arm("export_note", Script("exportNote", <<>>)),
       Arm("export_library", Script("exportLibrary", <<>>)),
       Arm("toggle_sidebar", Script("toggleSidebar", <<>>)),
       Arm("single_pane", Script("setLayoutMode", <<"single">>)),
       Arm("double_pane", Script("setLayoutMode", <<"double">>)),
       Arm("triple_pane", Script("setLayoutMode", <<"triple">>)),
       Arm("editor_only", Script("setEditorViewMode", <<"editor">>)),
       Arm("preview_only", Script("setEditorViewMode", <<"preview">>)),
       Arm("split_view", Script("setEditorViewMode", <<"split">>)) >>

\* The arms of `match event.id().as_ref()`, in source order; the default arm
\* `_ => {}` is the absence of a pattern.
match_arms ==
    << Arm("new_note", Script("newNote", <<>>)),
       Arm("new_notebook", Script("newNotebook", <<>>)),
       Arm("import", Script("importLibrary", <<>>)),
       Arm("export", Script("exportNote", <<>>)),
       Arm("export_library", Script("exportLibrary", <<>>)),
       Arm("toggle_sidebar", Script("toggleSidebar", <<>>)),
       Arm("single_pane", Script("setLayoutMode", <<"single">>)),
       Arm("double_pane", Script("setLayoutMode", <<"double">>)),
       Arm("triple_pane", Script("setLayoutMode", <<"triple">>)),
       Arm("editor_only", Script("setEditorViewMode", <<"editor">>)),
       Arm("preview_only", Script("setEditorViewMode", <<"preview">>)),
       Arm("split_view", Script("setEditorViewMode", <<"split">>)) >>

FirstArm(id) ==
    LET hits == {i \in DOMAIN match_arms : match_arms[i].pat = id}
    IN  IF hits = {} THEN 0
        ELSE CHOOSE i \in hits : \A j \in hits : i <= j

\* C6 mutant: an activation that repeats the previous one is taken for a
\* duplicate and evaluates nothing.
match_event_id_dedup(id) ==
    IF log # <<>> /\ log[Len(log)].id = id THEN <<>>
    ELSE IF FirstArm(id) = 0 THEN <<>>
    ELSE << match_arms[FirstArm(id)].script >>

\* The scripts the match evaluates for an event id: the script of the first
\* arm whose pattern is the id, none in the default arm.
match_event_id(id) ==
    IF FirstArm(id) = 0 THEN <<>>
    ELSE << match_arms[FirstArm(id)].script >>

\* C9 mutant: the window is looked up by focus instead of by label.
get_webview_window_focused(label) == label = "main" /\ main_window /\ focused

\* app.get_webview_window(label) is Some iff a window has that label.
get_webview_window(label) == label = "main" /\ main_window

Sent(script, evalOk) ==
    [window |-> "main", script |-> script,
     result |-> IF evalOk THEN "ok" ELSE "err"]

\* C8 mutant: a failed eval is tried a second time.
eval_all_retry(scripts, evalOk) ==
    IF scripts = <<>> THEN <<>>
    ELSE IF evalOk THEN << Sent(scripts[1], TRUE) >>
    ELSE << Sent(scripts[1], FALSE), Sent(scripts[1], FALSE) >>

\* `let _ = window.eval(script)`: one eval per script, its Result dropped.
eval_all(scripts, evalOk) ==
    [k \in DOMAIN scripts |-> Sent(scripts[k], evalOk)]

Entry(id, sent, outcome) ==
    [id |-> id, had_main |-> main_window, had_focus |-> focused,
     sent |-> sent, outcome |-> outcome]

\* The ids a menu event can carry: those of the installed items, and one id
\* that no installed item carries.
EventIds == LeafIds(menu) \cup {"unlisted"}

on_menu_event(id, evalOk) ==
    /\ status = "running"
    /\ Len(log) < MaxActivations
    /\ IF ~get_webview_window("main")
       THEN \* Option::unwrap on None
            /\ status' = "panicked"
            /\ log' = Append(log, Entry(id, <<>>, "panicked"))
       ELSE /\ status' = status
            /\ log' = Append(log, Entry(id, eval_all(match_event_id(id), evalOk),
                                        "returned"))
    /\ UNCHANGED <<decl, menu, main_window, focused>>

-----------------------------------------------------------------------------
(* setup                                                                   *)

\* create_menu(app.handle())? ; app.set_menu(menu)? ; Ok(()).  An Err makes
\* Builder::run return Err and `.expect` end the process.
setup(ctorOk, setOk) ==
    /\ status = "init"
    /\ LET built == create_menu(decl, ctorOk)
       IN  IF built.ok /\ setOk
           THEN menu' = built.value /\ status' = "running"
           ELSE menu' = menu /\ status' = "aborted"
    /\ UNCHANGED <<decl, main_window, focused, log>>

-----------------------------------------------------------------------------
(* The window registry and the focus belong to the tauri runtime.          *)

WindowDestroyed ==
    /\ status = "running"
    /\ main_window
    /\ main_window' = FALSE
    /\ focused' = FALSE
    /\ UNCHANGED <<status, decl, menu, log>>

FocusChanged ==
    /\ status = "running"
    /\ main_window
    /\ focused' = ~focused
    /\ UNCHANGED <<status, decl, menu, main_window, log>>

-----------------------------------------------------------------------------

Init ==
    /\ status = "init"
    /\ decl = LeafDecl
    /\ menu = NoMenu
    /\ main_window = TRUE
    /\ focused \in BOOLEAN
    /\ log = <<>>

Next ==
    \/ \E ctorOk \in BOOLEAN, setOk \in BOOLEAN : setup(ctorOk, setOk)
    \/ \E id \in EventIds, evalOk \in BOOLEAN : on_menu_event(id, evalOk)
    \/ WindowDestroyed
    \/ FocusChanged

Spec == Init /\ [][Next]_vars

-----------------------------------------------------------------------------
(* create_menu as a function of the declaration: the static declaration    *)
(* and every declaration that differs from it in one id or one accelerator *)

WithId(d, p, q) == [d EXCEPT ![p].id = d[q].id]
WithAccel(d, p, q) == [d EXCEPT ![p].accel = d[q].accel]

Declarations ==
    {WithId(LeafDecl, p, q) : p \in DOMAIN LeafDecl, q \in DOMAIN LeafDecl}
    \cup {WithAccel(LeafDecl, p, q) : p \in DOMAIN LeafDecl, q \in DOMAIN LeafDecl}

InitDecl ==
    /\ status = "init"
    /\ decl \in Declarations
    /\ menu = NoMenu
    /\ main_window = TRUE
    /\ focused = TRUE
    /\ log = <<>>

NextDecl == \E ctorOk \in BOOLEAN, setOk \in BOOLEAN : setup(ctorOk, setOk)

SpecDecl == InitDecl /\ [][NextDecl]_vars

-----------------------------------------------------------------------------
(* Properties                                                              *)

Signal(fn, args) == [fn |-> fn, args |-> args]

SignalOf(script) == [fn |-> script.fn, args |-> script.args]

\* The outbound signals of an entry of the log, in the order sent.
Signals(e) == [k \in DOMAIN e.sent |-> SignalOf(e.sent[k].script)]

\* The mapping table of the specification.
MappingTable ==
    [id \in {"new_note", "new_notebook", "import", "export", "export_library",
             "toggle_sidebar", "single_pane", "double_pane", "triple_pane",
             "editor_only", "preview_only", "split_view"} |->
        CASE id = "new_note"       -> Signal("newNote", <<>>)
          [] id = "new_notebook"   -> Signal("newNotebook", <<>>)
          [] id = "import"         -> Signal("importLibrary", <<>>)
          [] id = "export"         -> Signal("exportNote", <<>>)
          [] id = "export_library" -> Signal("exportLibrary", <<>>)
          [] id = "toggle_sidebar" -> Signal("toggleSidebar", <<>>)
          [] id = "single_pane"    -> Signal("setLayoutMode", <<"single">>)
          [] id = "double_pane"    -> Signal("setLayoutMode", <<"double">>)
          [] id = "triple_pane"    -> Signal("setLayoutMode", <<"triple">>)
          [] id = "editor_only"    -> Signal("setEditorViewMode", <<"editor">>)
          [] id = "preview_only"   -> Signal("setEditorViewMode", <<"preview">>)
          [] id = "split_view"     -> Signal("setEditorViewMode", <<"split">>)]

\* The signals the table assigns to an id: one, or none for an id without
\* an entry.
Expected(id) ==
    IF id \in DOMAIN MappingTable THEN << MappingTable[id] >> ELSE <<>>

\* C1 (as claimed): every activation of a Leaf id of the installed tree,
\* documentation included, while the "main" window exists, produces exactly
\* one signal, the one the mapping table assigns to the id.
C1_AsClaimed ==
    log # <<>> =>
    LET ids == LeafIds(menu) IN
    \A i \in DOMAIN log :
        (log[i].had_main /\ log[i].id \in ids) =>
            /\ Len(log[i].sent) = 1
            /\ log[i].id \in DOMAIN MappingTable
            /\ Signals(log[i]) = << MappingTable[log[i].id] >>

\* C1 (amended): every activation of a Leaf id other than documentation,
\* while the "main" window exists, produces exactly one signal, the one the
\* mapping table assigns to the id; an activation of documentation
\* produces none.
C1_MappedLeafEmitsItsSignal ==
    log # <<>> =>
    LET ids == LeafIds(menu) IN
    \A i \in DOMAIN log :
        (log[i].had_main /\ log[i].id \in ids) =>
            IF log[i].id = "documentation"
            THEN log[i].sent = <<>>
            ELSE /\ Len(log[i].sent) = 1
                 /\ log[i].id \in DOMAIN MappingTable
                 /\ Signals(log[i]) = << MappingTable[log[i].id] >>

C1_Witness ==
    \E i \in DOMAIN log :
        /\ log[i].had_main
        /\ log[i].id # "documentation"
        /\ log[i].id \in LeafIds(menu)
        /\ Len(log[i].sent) = 1

\* C2 (as claimed): an activation that finds no "main" window produces no
\* signal and no panic, and the dispatcher stays able to handle events.
C2_NoWindowIsDropped ==
    /\ \A i \in DOMAIN log :
          ~log[i].had_main => log[i].sent = <<>> /\ log[i].outcome = "returned"
    /\ status # "panicked"

\* C3 (as claimed): an activation of an id without an entry in the mapping
\* table sends nothing, does not crash, and changes neither the installed
\* tree nor the window.
C3_UnmappedIsNoOp ==
    [][ (log' # log /\ log'[Len(log')].id \notin DOMAIN MappingTable) =>
            /\ log'[Len(log')].sent = <<>>
            /\ log'[Len(log')].outcome = "returned"
            /\ status' = status
            /\ menu' = menu
            /\ main_window' = main_window
            /\ focused' = focused ]_vars

HasDuplicate(d) ==
    \E p, q \in DOMAIN d :
        /\ p # q
        /\ \/ d[p].id = d[q].id
           \/ d[p].accel # NoAccel /\ d[p].accel = d[q].accel

NoDuplicates(seq) ==
    \A p, q \in DOMAIN seq : seq[p] = seq[q] => p = q

\* C5: an installed tree has a CommandId on every Leaf, no CommandId on two
\* Leaf nodes, no accelerator on two Leaf nodes, and no CommandId on a
\* separator, a predefined item or a submenu header.
C5_TreeWellFormed ==
    menu # NoMenu =>
        LET leaves == Leaves(menu)
            ids    == [i \in DOMAIN leaves |-> leaves[i].id]
            accels == SelectSeq([i \in DOMAIN leaves |-> leaves[i].accel],
                                LAMBDA a : a # NoAccel)
            others == SelectSeq(Entries(menu), LAMBDA n : ~IsLeaf(n))
        IN  /\ \A i \in DOMAIN ids : ids[i] # NoId
            /\ NoDuplicates(ids)
            /\ NoDuplicates(accels)
            /\ \A i \in DOMAIN others : others[i].id = NoId
            /\ \A g \in DOMAIN menu : menu[g].kind = "Submenu" /\ menu[g].id = NoId

C5_Witness == menu # NoMenu /\ Len(Leaves(menu)) = 13

\* C6: the signals of an activation depend only on its id and on whether
\* the "main" window exists, not on the activations before it; double_pane
\* followed by triple_pane sends setLayoutMode('double') and then
\* setLayoutMode('triple').
C6_Stateless ==
    /\ \A i, j \in DOMAIN log :
          (log[i].id = log[j].id /\ log[i].had_main = log[j].had_main) =>
              /\ Signals(log[i]) = Signals(log[j])
              /\ log[i].outcome = log[j].outcome
    /\ \A i \in DOMAIN log :
          (/\ i + 1 \in DOMAIN log
           /\ log[i].id = "double_pane" /\ log[i].had_main
           /\ log[i + 1].id = "triple_pane" /\ log[i + 1].had_main) =>
              /\ Signals(log[i]) = << Signal("setLayoutMode", <<"double">>) >>
              /\ Signals(log[i + 1]) = << Signal("setLayoutMode", <<"triple">>) >>

C6_Witness ==
    /\ Len(log) = 2
    /\ log[1].id = "double_pane" /\ Len(log[1].sent) = 1
    /\ log[2].id = "triple_pane" /\ Len(log[2].sent) = 1

\* C7: every build that installs a tree installs the same one: the groups
\* Notch, File, Edit, View, Window, Help in this order, the Leaf nodes in
\* the order of the declaration, each with the label, CommandId,
\* accelerator and enabled flag declared for it.
C7_BuildIsFixed ==
    menu # NoMenu =>
        /\ [g \in DOMAIN menu |-> menu[g].text] =
               <<"Notch", "File", "Edit", "View", "Window", "Help">>
        /\ [g \in DOMAIN menu |-> Len(menu[g].items)] = <<9, 8, 7, 11, 4, 1>>
        /\ LET leaves == Leaves(menu)
           IN  /\ [i \in DOMAIN leaves |-> leaves[i].id] =
                      <<"new_note", "new_notebook", "import", "export",
                        "export_library", "toggle_sidebar", "single_pane",
                        "double_pane", "triple_pane", "editor_only",
                        "preview_only", "split_view", "documentation">>
               /\ Len(leaves) = Len(decl)
               /\ \A i \in DOMAIN decl :
                     /\ leaves[i].text = decl[i].text
                     /\ leaves[i].accel = decl[i].accel
                     /\ leaves[i].enabled = decl[i].enabled

C7_Witness == status = "running" /\ Len(menu) = 6

RECURSIVE SumSent(_)
SumSent(l) == IF l = <<>> THEN 0 ELSE Len(Head(l).sent) + SumSent(Tail(l))

\* C8: the signals sent never outnumber the activations, an activation
\* sends at most one signal, and a failed delivery is neither repeated nor
\* raised: the handler returns and the next activation is dispatched as
\* usual.
C8_AtMostOnce ==
    /\ SumSent(log) <= Len(log)
    /\ \A i \in DOMAIN log :
          /\ Len(log[i].sent) <= 1
          /\ (log[i].sent # <<>> /\ log[i].sent[1].result = "err") =>
                /\ log[i].outcome = "returned"
                /\ (i = Len(log) => status = "running")
                /\ (i + 1 \in DOMAIN log /\ log[i + 1].had_main) =>
                      Signals(log[i + 1]) = Expected(log[i + 1].id)

C8_Witness ==
    /\ Len(log) = 2
    /\ log[1].sent # <<>> /\ log[1].sent[1].result = "err"
    /\ log[2].sent # <<>> /\ log[2].sent[1].result = "ok"

MappedIds == {match_arms[i].pat : i \in DOMAIN match_arms}

\* C10: every id with a match arm is the id of a Leaf of the built tree,
\* documentation is the only Leaf id without an arm, and two arms with
\* different ids never evaluate the same script.
C10_TableAgreesWithMenu ==
    menu # NoMenu =>
        /\ LET ids == LeafIds(menu)
           IN  MappedIds \subseteq ids /\ ids \ MappedIds = {"documentation"}
        /\ \A i, j \in DOMAIN match_arms :
              match_arms[i].pat # match_arms[j].pat =>
                  match_arms[i].script # match_arms[j].script

C10_Witness ==
    /\ menu # NoMenu
    /\ \E i \in DOMAIN log :
          log[i].id = "documentation" /\ log[i].had_main /\ log[i].sent = <<>>
====
